---- MODULE Spec2Model ----
(***************************************************************************)
(* Model of update_vendor_performance.py: the month loop that spreads a    *)
(* per-month metric over the facilities of a reference table, the metric   *)
(* functions with their SQL selections, the infection-to-hospitalisation   *)
(* matcher, and the main run that writes one CSV per metric and archives.  *)
(***************************************************************************)
EXTENDS Integers, Sequences, FiniteSets, TLC

VARIABLES
    db,                 \* the datastore: one sequence of rows per table
    call,               \* arguments of the running build_* call
    date,               \* position of the `for date in pd.date_range(...)` loop
    df,                 \* the local df of build_csv_date_spread / build_pressure_wound_csv
    pc,                 \* "loop" | "done" | "raised" for the build_* call
    history,            \* per finished iteration: params, the rows func selected, the frame it returned
    inf_locals,         \* locals of the last infections_by_hosp call
    inf_file,           \* content of output/hospital_inf_without_visit.csv
    main                \* the __main__ block: position, files written, archive

vars == <<db, call, date, df, pc, history, inf_locals, inf_file, main>>

(***************************************************************************)
(* Values: SQL / pandas cells are tagged, so that a text, a number and a   *)
(* NULL (None / NaN / NaT) can share a column.                             *)
(***************************************************************************)
Null == [t |-> "null"]
Txt(s) == [t |-> "str", s |-> s]
Num(n) == [t |-> "int", n |-> n]

\* Python orders str values by code point: the printable ASCII characters
\* in that order (the double quote and the backquote are left out)
CodePoints ==
    " !#$%&'()*+,-./0123456789:;<=>?@ABCDEFGHIJKLMNOPQRSTUVWXYZ[\\]^_abcdefghijklmnopqrstuvwxyz{|}~"

Ord(c) == CHOOSE i \in 1..Len(CodePoints) : SubSeq(CodePoints, i, i) = c

\* a < b for two str values
RECURSIVE StrLT(_, _)
StrLT(a, b) ==
    IF Len(b) = 0 THEN FALSE
    ELSE IF Len(a) = 0 THEN TRUE
    ELSE IF SubSeq(a, 1, 1) = SubSeq(b, 1, 1)
         THEN StrLT(SubSeq(a, 2, Len(a)), SubSeq(b, 2, Len(b)))
         ELSE Ord(SubSeq(a, 1, 1)) < Ord(SubSeq(b, 1, 1))

(***************************************************************************)
(* Dates.  A date is [year, month, day]; str(date) is 'YYYY-MM-DD'.        *)
(***************************************************************************)
IsLeap(y) == (y % 4 = 0 /\ y % 100 # 0) \/ y % 400 = 0

DaysInMonth(y, m) ==
    IF m = 2 THEN (IF IsLeap(y) THEN 29 ELSE 28)
    ELSE IF m \in {4, 6, 9, 11} THEN 30 ELSE 31

MkDate(y, m, d) == [year |-> y, month |-> m, day |-> d]

\* datetime.date.toordinal
RECURSIVE DaysBeforeMonth(_, _)
DaysBeforeMonth(y, m) ==
    IF m = 1 THEN 0 ELSE DaysBeforeMonth(y, m - 1) + DaysInMonth(y, m - 1)

ToOrdinal(d) ==
    LET y == d.year - 1
    IN  y * 365 + (y \div 4) - (y \div 100) + (y \div 400)
        + DaysBeforeMonth(d.year, d.month) + d.day

DateLE(a, b) == ToOrdinal(a) <= ToOrdinal(b)

Digit(n) == SubSeq("0123456789", n + 1, n + 1)

Pad2(n) == Digit(n \div 10) \o Digit(n % 10)

Pad4(n) == Digit(n \div 1000) \o Digit((n \div 100) % 10)
           \o Digit((n \div 10) % 10) \o Digit(n % 10)

\* str(datetime.date): ISO format, zero padded
DateStr(d) == Pad4(d.year) \o "-" \o Pad2(d.month) \o "-" \o Pad2(d.day)

\* Python's s[:n]: clamps at the end of the string
Slice(s, n) == SubSeq(s, 1, IF Len(s) < n THEN Len(s) ELSE n)

\* the month end on or after d: where pd.date_range(..., freq="M") starts
MonthEnd(d) == MkDate(d.year, d.month, DaysInMonth(d.year, d.month))

\* the next element of a freq="M" range
NextMonthEnd(d) ==
    IF d.month = 12 THEN MkDate(d.year + 1, 1, 31)
    ELSE MkDate(d.year, d.month + 1, DaysInMonth(d.year, d.month + 1))

\* the exhausted iterator of the range
Stop == MkDate(0, 0, 0)

\* first element of pd.date_range(start, end, freq="M"), or Stop if it is empty
RangeFirst(start, end) ==
    IF DateLE(MonthEnd(start), end) THEN MonthEnd(start) ELSE Stop

RangeNext(cur, end) ==
    IF DateLE(NextMonthEnd(cur), end) THEN NextMonthEnd(cur) ELSE Stop

\* pd.to_datetime(f"{date.year}-{date.month}-01").date()
FirstOfMonth(d) == MkDate(d.year, d.month, 1)

\* params = (str(start_date), str(date.date())); kept as dates, rendered by DateStr
Params(d) == <<FirstOfMonth(d), d>>

(***************************************************************************)
(* DataFrames: [columns |-> <<name, ...>>, rows |-> <<row, ...>>], a row a *)
(* tuple of cells in the order of the columns.                             *)
(***************************************************************************)
RECURSIVE Flatten(_)
Flatten(ss) == IF ss = <<>> THEN <<>> ELSE Head(ss) \o Flatten(Tail(ss))

Range(f) == {f[i] : i \in DOMAIN f}

ColIndex(frame, name) ==
    CHOOSE i \in 1..Len(frame.columns) :
        /\ frame.columns[i] = name
        /\ \A j \in 1..(i - 1) : frame.columns[j] # name

\* the elements of a set of numbers in ascending order
RECURSIVE Ascending(_)
Ascending(S) ==
    IF S = {} THEN <<>>
    ELSE LET m == CHOOSE x \in S : \A y \in S : x <= y
         IN  <<m>> \o Ascending(S \ {m})

\* the elements of seq at the indices S, in the order of seq
Select(seq, S) ==
    LET ix == Ascending(S) IN [k \in 1..Len(ix) |-> seq[ix[k]]]

\* DataFrame.fillna(v): every missing cell, of every column, becomes v
fillna(frame, v) ==
    [frame EXCEPT !.rows =
        [i \in 1..Len(frame.rows) |->
            [j \in 1..Len(frame.rows[i]) |->
                IF frame.rows[i][j] = Null THEN v ELSE frame.rows[i][j]]]]

\* frame[col] = frame[col].fillna(v): the missing cells of one column
fillna_column(frame, col, v) ==
    LET c == ColIndex(frame, col)
    IN  [frame EXCEPT !.rows =
            [i \in 1..Len(frame.rows) |->
                [j \in 1..Len(frame.rows[i]) |->
                    IF j = c /\ frame.rows[i][j] = Null THEN v ELSE frame.rows[i][j]]]]

\* left.merge(right, on=on, how="left"): the left rows in their order, each
\* once per right row with an equal key (missing keys equal one another),
\* or once with missing cells; overlapping names get the suffixes _x, _y.
merge(left, right, on) ==
    LET lk == ColIndex(left, on)
        rk == ColIndex(right, on)
        lothers == {left.columns[i] : i \in (1..Len(left.columns)) \ {lk}}
        rothers == {right.columns[i] : i \in (1..Len(right.columns)) \ {rk}}
        overlap == lothers \cap rothers
        rix == Ascending({i \in 1..Len(right.columns) : i # rk})
        lcols == [i \in 1..Len(left.columns) |->
                    IF i # lk /\ left.columns[i] \in overlap
                    THEN left.columns[i] \o "_x" ELSE left.columns[i]]
        rcols == [k \in 1..Len(rix) |->
                    IF right.columns[rix[k]] \in overlap
                    THEN right.columns[rix[k]] \o "_y" ELSE right.columns[rix[k]]]
        rcells(r) == [k \in 1..Len(rix) |-> r[rix[k]]]
        joined(l) ==
            LET m == Select(right.rows,
                            {i \in 1..Len(right.rows) : right.rows[i][rk] = l[lk]})
            IN  IF m = <<>> THEN << l \o [k \in 1..Len(rix) |-> Null] >>
                ELSE [k \in 1..Len(m) |-> l \o rcells(m[k])]
    IN  [columns |-> lcols \o rcols,
         rows |-> Flatten([i \in 1..Len(left.rows) |-> joined(left.rows[i])])]

\* the texts among the cells S, in ascending order
RECURSIVE SortedTexts(_)
SortedTexts(S) ==
    LET T == {x \in S : x.t = "str"}
    IN  IF T = {} THEN <<>>
        ELSE LET m == CHOOSE x \in T : \A y \in T : ~StrLT(y.s, x.s)
             IN  <<m.s>> \o SortedTexts(T \ {m})

\* a sorts before b in sort_values: missing keys last, numbers by value,
\* texts by code point
KeyLT(a, b) ==
    IF a = Null THEN FALSE
    ELSE IF b = Null THEN TRUE
    ELSE IF a.t = "int" /\ b.t = "int" THEN a.n < b.n
    ELSE StrLT(a.s, b.s)

\* sorting a key column that holds a number and a text compares the two:
\* TypeError ('<' not supported between instances of 'int' and 'str')
SortRaises(frame, col) ==
    LET c == ColIndex(frame, col)
        kinds == {frame.rows[i][c].t : i \in 1..Len(frame.rows)}
    IN  "int" \in kinds /\ "str" \in kinds

RECURSIVE SortRows(_, _)
SortRows(rows, c) ==
    IF rows = <<>> THEN <<>>
    ELSE LET rest == SortRows(Tail(rows), c)
             h == Head(rows)
             n == Cardinality({i \in 1..Len(rest) : KeyLT(rest[i][c], h[c])})
         IN  SubSeq(rest, 1, n) \o <<h>> \o SubSeq(rest, n + 1, Len(rest))

\* df.sort_values(by=col): every row is kept, in ascending order of its
\* key, the rows with a missing key last
sort_values(frame, col) ==
    [frame EXCEPT !.rows = SortRows(frame.rows, ColIndex(frame, col))]

\* rows.groupby(key).count()["member_id"].reset_index().rename(member_id -> name):
\* one row per key that is not missing, in key order, with the number of
\* its rows whose member_id is not missing
GroupCount(rows, keycol, name) ==
    LET keys == SortedTexts({rows[i][keycol] : i \in 1..Len(rows)})
        n(k) == Cardinality({i \in 1..Len(rows) :
                    rows[i][keycol] = Txt(k) /\ rows[i].member_id # Null})
    IN  [columns |-> <<keycol, name>>,
         rows |-> [i \in 1..Len(keys) |-> <<Txt(keys[i]), Num(n(keys[i]))>>]]

EmptyFrame == [columns |-> <<>>, rows |-> <<>>]

\* SELECT DISTINCT(col): the values in order of first occurrence
RECURSIVE Distinct(_)
Distinct(seq) ==
    IF seq = <<>> THEN <<>>
    ELSE LET init == Distinct(SubSeq(seq, 1, Len(seq) - 1))
             last == seq[Len(seq)]
         IN  IF last \in Range(init) THEN init ELSE Append(init, last)

(***************************************************************************)
(* The datastore.  db[table] is the sequence of the table's rows; a row is *)
(* a record of its columns.  Date columns hold a date or Null and are      *)
(* compared as the ISO texts the queries compare; text columns that may be *)
(* missing hold Txt(..) or Null.                                           *)
(*   alfs:           member_id, facility_name, admission_date,             *)
(*                   discharge_date, discharge_type                        *)
(*   nursing_home:   member_id, facility, admission_date, discharge_date,  *)
(*                   discharge_disposition                                 *)
(*   inpatient:      member_id, facility, admission_date, discharge_date,  *)
(*                   admission_type                                        *)
(*   authorizations: member_id, vendor, approval_effective_date,           *)
(*                   approval_expiration_date, service_type                *)
(*   infections:     member_id, where_infection_was_acquired,              *)
(*                   date_time_occurred                                    *)
(*   wounds:         member_id, living_situation, living_detail,           *)
(*                   date_time_occurred                                    *)
(***************************************************************************)
\* SQL comparisons: a comparison with NULL selects nothing
SqlGE(cell, p) == cell # Null /\ DateLE(p, cell)

SqlLE(cell, p) == cell # Null /\ DateLE(cell, p)

SqlBetween(cell, lo, hi) == SqlGE(cell, lo) /\ SqlLE(cell, hi)

\* the table-specific predicate of the facility universe
where_filter(table, r) ==
    IF table = "authorizations"
    THEN r.service_type = "Adult Day Center Attendance"
    ELSE IF table = "inpatient"
    THEN r.admission_type = "Acute Hospital"
         \/ r.admission_type = "Psych Unit / Facility"
    ELSE TRUE

\* SELECT DISTINCT(facility_col) FROM table where_filter
FacilityUniverse(table, facility_col) ==
    LET sel == Select(db[table],
                      {i \in 1..Len(db[table]) : where_filter(table, db[table][i])})
        vals == Distinct([i \in 1..Len(sel) |-> sel[i][facility_col]])
    IN  [columns |-> <<facility_col>>,
         rows |-> [i \in 1..Len(vals) |-> <<vals[i]>>]]

\* SELECT DISTINCT(living_detail) FROM wounds WHERE living_situation IS ?
\* followed by df["living_detail"].fillna("Unknown")
WoundUniverse(facility_type) ==
    LET sel == Select(db.wounds,
                      {i \in 1..Len(db.wounds) :
                          db.wounds[i].living_situation = facility_type})
        vals == Distinct([i \in 1..Len(sel) |-> sel[i].living_detail])
    IN  fillna_column([columns |-> <<"living_detail">>,
                       rows |-> [i \in 1..Len(vals) |-> <<vals[i]>>]],
                      "living_detail", Txt("Unknown"))

(***************************************************************************)
(* The metric functions.  params = <<month start, month end>>; the SQL     *)
(* placeholders are bound in order: the first ? is params[1].              *)
(***************************************************************************)
\* alf_census_rows with the two placeholders bound the other way round
alf_census_rows_swapped(params) ==
    Select(db.alfs, {i \in 1..Len(db.alfs) :
        LET r == db.alfs[i] IN
        /\ (SqlGE(r.discharge_date, params[2]) \/ r.discharge_date = Null)
        /\ SqlLE(r.admission_date, params[1])})

alf_census_rows(params) ==
    Select(db.alfs, {i \in 1..Len(db.alfs) :
        LET r == db.alfs[i] IN
        /\ (SqlGE(r.discharge_date, params[1]) \/ r.discharge_date = Null)
        /\ SqlLE(r.admission_date, params[2])})

alf_census_on_date(params) ==
    GroupCount(alf_census_rows(params), "facility_name", "census-" \o Slice(DateStr(params[1]), 7))

alf_to_hosp_rows(params) ==
    Select(db.alfs, {i \in 1..Len(db.alfs) :
        LET r == db.alfs[i] IN
        /\ SqlBetween(r.discharge_date, params[1], params[2])
        /\ r.discharge_type = "Hospital/ER"})

alf_to_hosp(params) ==
    GroupCount(alf_to_hosp_rows(params), "facility_name", "hosp_admits-" \o DateStr(params[1]))

nf_census_rows(params) ==
    Select(db.inpatient, {i \in 1..Len(db.inpatient) :
        LET r == db.inpatient[i] IN
        /\ (SqlGE(r.discharge_date, params[1]) \/ r.discharge_date = Null)
        /\ SqlLE(r.admission_date, params[2])})

nf_census_on_date(params) ==
    GroupCount(nf_census_rows(params), "facility", "census-" \o Slice(DateStr(params[1]), 7))

nf_to_hosp_rows(params) ==
    Select(db.nursing_home, {i \in 1..Len(db.nursing_home) :
        LET r == db.nursing_home[i] IN
        /\ SqlBetween(r.discharge_date, params[1], params[2])
        /\ r.discharge_disposition = "Acute care hospital or psychiatric facility"})

nf_to_hosp(params) ==
    GroupCount(nf_to_hosp_rows(params), "facility", "hosp_admits-" \o DateStr(params[1]))

hosp_admissions_rows(params) ==
    Select(db.inpatient, {i \in 1..Len(db.inpatient) :
        LET r == db.inpatient[i] IN
        SqlBetween(r.admission_date, params[1], params[2])})

hosp_admissions(params) ==
    GroupCount(hosp_admissions_rows(params), "facility",
               "admissions-" \o Slice(DateStr(params[1]), 7))

\* u.admissions_resulting_in_30day_df / u.admissions_30day_readmit_df belong
\* to the query layer: all that is known is that they return rows of the
\* inpatient table, so every sub-selection of it is a possible answer.
SubSelections(rows) ==
    {[k \in 1..Len(Ascending(S)) |-> rows[Ascending(S)[k]]] :
        S \in SUBSET (1..Len(rows))}

resulting_30_day_hosp_count(params, rows) ==
    GroupCount(rows, "facility", "results_in_30dr-" \o Slice(DateStr(params[1]), 7))

readmit_30_day_hosp_count(params, rows) ==
    GroupCount(rows, "facility", "30dr-" \o Slice(DateStr(params[1]), 7))

adc_census_rows(params) ==
    Select(db.authorizations, {i \in 1..Len(db.authorizations) :
        LET r == db.authorizations[i] IN
        /\ r.service_type = "Adult Day Center Attendance"
        /\ (SqlGE(r.approval_expiration_date, params[1])
            \/ r.approval_expiration_date = Null)
        /\ SqlLE(r.approval_effective_date, params[2])})

adc_census_on_date(params) ==
    GroupCount(adc_census_rows(params), "vendor", "adc_census-" \o Slice(DateStr(params[1]), 7))

\* params = [facility_type] + list(params): from here on params[0] of the
\* source is facility_type, and that is what the column name slices
pressure_ulcers_rows(facility_type, params) ==
    Select(db.wounds, {i \in 1..Len(db.wounds) :
        LET r == db.wounds[i] IN
        /\ r.living_situation = facility_type
        /\ SqlBetween(r.date_time_occurred, params[1], params[2])})

pressure_ulcers_at_facility(facility_type, params) ==
    LET shadowed == <<facility_type, DateStr(params[1]), DateStr(params[2])>>
    IN  fillna_column(
            GroupCount(pressure_ulcers_rows(facility_type, params),
                       "living_detail",
                       facility_type \o "_pulcers-" \o Slice(shadowed[1], 7)),
            "living_detail", Txt("Unknown"))

(***************************************************************************)
(* infections_by_hosp: the proximity matcher.                              *)
(***************************************************************************)
Abs(n) == IF n < 0 THEN -n ELSE n

\* SELECT * FROM infections WHERE where_infection_was_acquired = 'Hospital'
\* AND date_time_occurred BETWEEN ? AND ?
hospital_infections(params) ==
    Select(db.infections, {i \in 1..Len(db.infections) :
        LET r == db.infections[i] IN
        /\ r.where_infection_was_acquired = "Hospital"
        /\ SqlBetween(r.date_time_occurred, params[1], params[2])})

\* abs(df["date_time_occurred"] - df["discharge_date"]): missing when the
\* discharge date is
days_between(occurred, discharge) ==
    IF discharge = Null THEN Null
    ELSE Num(Abs(ToOrdinal(occurred) - ToOrdinal(discharge)))

JoinRow(inf, adm_date, dis_date, fac) ==
    [member_id |-> inf.member_id,
     admission_date |-> adm_date,
     discharge_date |-> dis_date,
     facility |-> fac,
     date_time_occurred |-> inf.date_time_occurred,
     days_between_hosp_and_inf |-> days_between(inf.date_time_occurred, dis_date)]

\* the orders in which a query without ORDER BY may deliver a table
Orderings(table) ==
    {[k \in 1..Len(table) |-> table[f[k]]] :
        f \in {g \in [1..Len(table) -> 1..Len(table)] :
                    \A a, b \in 1..Len(table) : g[a] = g[b] => a = b}}

\* infections LEFT JOIN inpatient ut ON infections.member_id = ut.member_id
\* (NULL equals nothing), with the days_between_hosp_and_inf column added;
\* ut is inpatient in the order the join visits it
infections_with_hosp(params, ut) ==
    LET inf == hospital_infections(params)
        joined(i) ==
            LET adm == Select(ut,
                              {k \in 1..Len(ut) :
                                  /\ i.member_id # Null
                                  /\ ut[k].member_id = i.member_id})
            IN  IF adm = <<>> THEN << JoinRow(i, Null, Null, Null) >>
                ELSE [k \in 1..Len(adm) |->
                        JoinRow(i, adm[k].admission_date, adm[k].discharge_date,
                                adm[k].facility)]
    IN  Flatten([k \in 1..Len(inf) |-> joined(inf[k])])

\* the difference column holds time differences, and .dt.days is defined,
\* as soon as one difference is not missing
HasDaysAccessor(joined) ==
    \E k \in 1..Len(joined) : joined[k].days_between_hosp_and_inf # Null

\* the join has rows and every discharge date is missing.  What pandas
\* does then depends on its version, which the repository does not pin:
\* the difference is a column of NaN and .dt raises AttributeError inside
\* the try, or the subtraction itself raises TypeError before the try.
AllMissing(joined) == joined # <<>> /\ ~HasDaysAccessor(joined)

\* within_one_week without the cutoff
within_one_week_any(joined) ==
    Select(joined, {i \in 1..Len(joined) : joined[i].days_between_hosp_and_inf # Null})

\* df[df["days_between_hosp_and_inf"].dt.days <= 7]
within_one_week(joined) ==
    Select(joined, {i \in 1..Len(joined) :
        LET r == joined[i] IN
        /\ r.days_between_hosp_and_inf # Null
        /\ r.days_between_hosp_and_inf.n <= 7})

MatchKey(r) == <<r.member_id, r.date_time_occurred>>

\* sort_values("days_between_hosp_and_inf") then drop_duplicates(["member_id",
\* "date_time_occurred"], keep="first"): one row per key, one with the least
\* difference.  The sort is not stable, so among rows of a key with the same
\* least difference any may come first: each choice is a possible result.
KeptChoices(week) ==
    LET keys == {MatchKey(week[k]) : k \in 1..Len(week)}
        least(key) == {k \in 1..Len(week) :
            /\ MatchKey(week[k]) = key
            /\ \A j \in 1..Len(week) : MatchKey(week[j]) = key =>
                    week[k].days_between_hosp_and_inf.n
                        <= week[j].days_between_hosp_and_inf.n}
    IN  {{f[key] : key \in keys} :
            f \in {g \in [keys -> 1..Len(week)] : \A key \in keys : g[key] \in least(key)}}

\* the kept rows in ascending order of the difference
KeptRows(week, kept) ==
    LET rows == Select(week, kept)
        days == Ascending({rows[i].days_between_hosp_and_inf.n : i \in 1..Len(rows)})
    IN  Flatten([d \in 1..Len(days) |->
            Select(rows, {i \in 1..Len(rows) :
                            rows[i].days_between_hosp_and_inf.n = days[d]})])

\* infections[-infections["member_id"].isin(hosp_within_one_weeks["member_id"])]
without_visit(inf, hosp_within_one_weeks) ==
    Select(inf, {i \in 1..Len(inf) :
        LET r == inf[i] IN
        r.member_id \notin {hosp_within_one_weeks[k].member_id :
                              k \in 1..Len(hosp_within_one_weeks)}})

Placeholder ==
    [columns |-> <<"facility", "infections">>,
     rows |-> << <<Txt("None"), Txt("None")>> >>]

\* the subtraction at lines 292-294 raises TypeError (a date minus NaT, on
\* the pandas versions that read an all-missing discharge_date as
\* datetime64): it is outside the try, the error leaves the call
infections_type_error(params, joined) ==
    [raised |-> TRUE, selected |-> <<>>, frame |-> EmptyFrame,
     locals |-> [params |-> params, placeholder |-> FALSE, df |-> joined,
                 hosp_within_one_weeks |-> <<>>],
     file |-> inf_file]

\* except AttributeError: the placeholder is returned; nothing is written
infections_except(params, joined) ==
    [raised |-> FALSE, selected |-> <<>>, frame |-> Placeholder,
     locals |-> [params |-> params, placeholder |-> TRUE, df |-> joined,
                 hosp_within_one_weeks |-> <<>>],
     file |-> inf_file]

\* every possible outcome of one call: the frame returned, the locals at
\* the return and the content of the diagnostic file after it
infections_by_hosp(params) ==
    UNION {
        LET inf == hospital_infections(params)
            joined == infections_with_hosp(params, ut)
            week == within_one_week(joined)
        IN  IF ~HasDaysAccessor(joined)
            THEN IF AllMissing(joined)
                 THEN {infections_except(params, joined),
                       infections_type_error(params, joined)}
                 ELSE {infections_except(params, joined)}
            ELSE {[raised |-> FALSE,
                   selected |-> KeptRows(week, kept),
                   frame |-> GroupCount(KeptRows(week, kept), "facility", "infections"),
                   locals |-> [params |-> params, placeholder |-> FALSE, df |-> joined,
                               hosp_within_one_weeks |-> KeptRows(week, kept)],
                   file |-> [written |-> TRUE,
                             rows |-> without_visit(inf, KeptRows(week, kept))]] :
                  kept \in KeptChoices(week)} :
        ut \in Orderings(db.inpatient)}

(***************************************************************************)
(* The calls of the main block, in order: what is built and the file the   *)
(* result is written to.                                                   *)
(***************************************************************************)
Spread(func, table, facility_col, file) ==
    [fn |-> "build_csv_date_spread", func |-> func, table |-> table,
     facility_col |-> facility_col, facility_type |-> "", file |-> file]

Pressure(facility_type, file) ==
    [fn |-> "build_pressure_wound_csv", func |-> "pressure_ulcers_at_facility",
     table |-> "wounds", facility_col |-> "living_detail",
     facility_type |-> facility_type, file |-> file]

MainCalls ==
    << Spread("alf_census_on_date", "alfs", "facility_name", "output/alf_census.csv"),
       Spread("alf_to_hosp", "alfs", "facility_name", "output/hosp_from_alf.csv"),
       Spread("nf_census_on_date", "nursing_home", "facility", "output/nf_census.csv"),
       Spread("nf_to_hosp", "nursing_home", "facility", "output/hosp_from_nf.csv"),
       Spread("hosp_admissions", "inpatient", "facility", "output/hosp_admissions.csv"),
       Spread("resulting_30_day_hosp_count", "inpatient", "facility",
              "output/hosp_admit_results_in_30day.csv"),
       Spread("readmit_30_day_hosp_count", "inpatient", "facility",
              "output/hosp_30_day_readmits.csv"),
       Spread("infections_by_hosp", "inpatient", "facility", "output/hosp_infections.csv"),
       Spread("adc_census_on_date", "authorizations", "vendor", "output/adc_census.csv"),
       Pressure("SNF", "output/snf_pulcers.csv"),
       Pressure("ALF", "output/alf_pulcers.csv") >>

WithDates(wiring, start, end) ==
    [wiring |-> wiring, start_date |-> start, end_date |-> end]

\* what a metric function that cannot raise hands back
Returned(rows, frame) ==
    [raised |-> FALSE, selected |-> rows, frame |-> frame,
     locals |-> inf_locals, file |-> inf_file]

\* func(params): the possible outcomes of the call
FuncOutcomes(func, params) ==
    CASE func = "alf_census_on_date" -> {Returned(alf_census_rows(params), alf_census_on_date(params))}
      [] func = "alf_to_hosp" -> {Returned(alf_to_hosp_rows(params), alf_to_hosp(params))}
      [] func = "nf_census_on_date" -> {Returned(nf_census_rows(params), nf_census_on_date(params))}
      [] func = "nf_to_hosp" -> {Returned(nf_to_hosp_rows(params), nf_to_hosp(params))}
      [] func = "hosp_admissions" -> {Returned(hosp_admissions_rows(params), hosp_admissions(params))}
      [] func = "resulting_30_day_hosp_count" ->
            {Returned(rows, resulting_30_day_hosp_count(params, rows)) :
                rows \in SubSelections(db.inpatient)}
      [] func = "readmit_30_day_hosp_count" ->
            {Returned(rows, readmit_30_day_hosp_count(params, rows)) :
                rows \in SubSelections(db.inpatient)}
      [] func = "infections_by_hosp" -> infections_by_hosp(params)
      [] func = "adc_census_on_date" -> {Returned(adc_census_rows(params), adc_census_on_date(params))}

(***************************************************************************)
(* build_csv_date_spread                                                   *)
(***************************************************************************)
\* an exception leaves the build: a running main block ends with it
Aborted == IF main.pc = "running" THEN [main EXCEPT !.pc = "aborted"] ELSE main

\* SpreadMerge without the fillna(0)
SpreadMergeNoFill(left, right, facility_col) == merge(left, right, facility_col)

\* one pass of the loop body on the frame func returned
SpreadMerge(left, right, facility_col) ==
    fillna(merge(left, right, facility_col), Num(0))

\* lines 30-41: the facility universe is queried and the range is built
SpreadResolve ==
    /\ pc = "start"
    /\ call.wiring.fn = "build_csv_date_spread"
    /\ df' = FacilityUniverse(call.wiring.table, call.wiring.facility_col)
    /\ date' = RangeFirst(call.start_date, call.end_date)
    /\ pc' = "loop"
    /\ UNCHANGED <<db, call, history, inf_locals, inf_file, main>>

\* lines 41-45: one month of the loop
SpreadLoop ==
    /\ pc = "loop"
    /\ call.wiring.fn = "build_csv_date_spread"
    /\ date # Stop
    /\ \E out \in FuncOutcomes(call.wiring.func, Params(date)) :
          IF out.raised \/ call.wiring.facility_col \notin Range(out.frame.columns)
          THEN /\ pc' = "raised"
               /\ UNCHANGED <<df, date, history>>
               /\ inf_locals' = out.locals
               /\ inf_file' = out.file
               /\ main' = Aborted
          ELSE /\ df' = SpreadMerge(df, out.frame, call.wiring.facility_col)
               /\ history' = Append(history, [params |-> Params(date),
                                               selected |-> out.selected,
                                               frame |-> out.frame])
               /\ date' = RangeNext(date, call.end_date)
               /\ inf_locals' = out.locals
               /\ inf_file' = out.file
               /\ pc' = "loop"
               /\ main' = main
    /\ UNCHANGED <<db, call>>

\* lines 47-49: the range is exhausted, the frame is sorted and returned,
\* unless the sort raises
SpreadFinish ==
    /\ pc = "loop"
    /\ call.wiring.fn = "build_csv_date_spread"
    /\ date = Stop
    /\ IF SortRaises(df, call.wiring.facility_col)
       THEN /\ pc' = "raised"
            /\ main' = Aborted
            /\ df' = df
       ELSE /\ df' = sort_values(df, call.wiring.facility_col)
            /\ pc' = "done"
            /\ main' = main
    /\ UNCHANGED <<db, call, date, history, inf_locals, inf_file>>

(***************************************************************************)
(* build_pressure_wound_csv                                                *)
(***************************************************************************)
\* lines 70-76
PressureResolve ==
    /\ pc = "start"
    /\ call.wiring.fn = "build_pressure_wound_csv"
    /\ df' = WoundUniverse(call.wiring.facility_type)
    /\ date' = RangeFirst(call.start_date, call.end_date)
    /\ pc' = "loop"
    /\ UNCHANGED <<db, call, history, inf_locals, inf_file, main>>

\* lines 76-84
PressureLoop ==
    /\ pc = "loop"
    /\ call.wiring.fn = "build_pressure_wound_csv"
    /\ date # Stop
    /\ LET frame == pressure_ulcers_at_facility(call.wiring.facility_type, Params(date))
           rows == pressure_ulcers_rows(call.wiring.facility_type, Params(date))
       IN  /\ df' = SpreadMerge(df, frame, "living_detail")
           /\ history' = Append(history, [params |-> Params(date), selected |-> rows,
                                          frame |-> frame])
    /\ date' = RangeNext(date, call.end_date)
    /\ UNCHANGED <<db, call, pc, inf_locals, inf_file, main>>

\* lines 86-87
PressureFinish ==
    /\ pc = "loop"
    /\ call.wiring.fn = "build_pressure_wound_csv"
    /\ date = Stop
    /\ IF SortRaises(df, "living_detail")
       THEN /\ pc' = "raised"
            /\ main' = Aborted
            /\ df' = df
       ELSE /\ df' = sort_values(df, "living_detail")
            /\ pc' = "done"
            /\ main' = main
    /\ UNCHANGED <<db, call, date, history, inf_locals, inf_file>>

NextSpread == SpreadResolve \/ SpreadLoop \/ SpreadFinish

NextPressure == PressureResolve \/ PressureLoop \/ PressureFinish

Next == NextSpread \/ NextPressure

(***************************************************************************)
(* Inputs.  A table is a bag of rows: its rows are enumerated in one order *)
(* per bag.                                                                *)
(***************************************************************************)
MaxRows == 2

NumMonths == 3

\* the months the date arguments are drawn from: December 2023 onwards
InputMonth(i) ==
    LET x == 2023 * 12 + 11 + i IN [year |-> x \div 12, month |-> (x % 12) + 1]

InputDates ==
    UNION {{MkDate(InputMonth(i).year, InputMonth(i).month, d) :
                d \in {1, 15, DaysInMonth(InputMonth(i).year, InputMonth(i).month)}} :
           i \in 0..(NumMonths - 1)}

Before == MkDate(2023, 12, 15)

Mid1 == MkDate(2024, 1, 15)

Mid2 == MkDate(2024, 2, 15)

Jan1 == MkDate(2024, 1, 1)

Feb29 == MkDate(2024, 2, 29)

Members == <<1, 2>>

Facilities == <<"A", "B">>

\* the facility cells of the generated rows; a facility may be missing
Keys == [i \in 1..Len(Facilities) |-> Txt(Facilities[i])]

KeysOrNull == Append(Keys, Null)

\* the product of five value lists, as a list of tuples
Product(ms, fs, as, ds, ks) ==
    [i \in 1..(Len(ms) * Len(fs) * Len(as) * Len(ds) * Len(ks)) |->
        LET j == i - 1
            a == j \div Len(ms)
            b == a \div Len(fs)
            c == b \div Len(as)
            d == c \div Len(ds)
        IN  << ms[(j % Len(ms)) + 1], fs[(a % Len(fs)) + 1], as[(b % Len(as)) + 1],
               ds[(c % Len(ds)) + 1], ks[(d % Len(ks)) + 1] >>]

\* the bags of at most MaxRows elements of a list
BagsOf(seq) ==
    {[k \in 1..Len(ix) |-> seq[ix[k]]] :
        ix \in {s \in UNION {[1..n -> 1..Len(seq)] : n \in 0..MaxRows} :
                    \A i \in 1..(Len(s) - 1) : s[i] <= s[i + 1]}}

AlfRow(x) ==
    [member_id |-> Num(x[1]), facility_name |-> x[2], admission_date |-> x[3],
     discharge_date |-> x[4], discharge_type |-> x[5]]

NursingHomeRow(x) ==
    [member_id |-> Num(x[1]), facility |-> x[2], admission_date |-> x[3],
     discharge_date |-> x[4], discharge_disposition |-> x[5]]

InpatientRow(x) ==
    [member_id |-> Num(x[1]), facility |-> x[2], admission_date |-> x[3],
     discharge_date |-> x[4], admission_type |-> x[5]]

AuthorizationRow(x) ==
    [member_id |-> Num(x[1]), vendor |-> x[2], approval_effective_date |-> x[3],
     approval_expiration_date |-> x[4], service_type |-> x[5]]

WoundRow(x) ==
    [member_id |-> Num(x[1]), living_detail |-> x[2], date_time_occurred |-> x[3],
     living_situation |-> x[5]]

InfectionRow(x) ==
    [member_id |-> Num(x[1]), where_infection_was_acquired |-> x[2],
     date_time_occurred |-> x[3]]

EmptyDb ==
    [alfs |-> <<>>, nursing_home |-> <<>>, inpatient |-> <<>>,
     authorizations |-> <<>>, infections |-> <<>>, wounds |-> <<>>]

\* stays for the census selections: admission and discharge dates vary
CensusStays(keys, admissions, kind) ==
    BagsOf(Product(Members, keys, admissions, <<Null, Mid1, Mid2>>, <<kind>>))

\* stays for the discharged-to-hospital selections: discharge and type vary
DischargeStays(kind) ==
    BagsOf(Product(Members, Keys, <<Before>>, <<Null, Mid1, Mid2>>,
                   <<kind, "Other">>))

\* admissions: admission date and admission type vary
AdmissionStays ==
    BagsOf(Product(Members, Keys, <<Before, Mid1, Mid2>>, <<Null>>,
                   <<"Acute Hospital", "Other">>))

\* the datastores a call of the main block is run on: the tables the call
\* reads are filled, the others are empty
DbsFor(wiring) ==
    CASE wiring.func = "alf_census_on_date" ->
            {[EmptyDb EXCEPT !.alfs = [k \in 1..Len(b) |-> AlfRow(b[k])]] :
                b \in CensusStays(KeysOrNull, <<Before, Mid1, Mid2>>, "Other")}
      [] wiring.func = "alf_to_hosp" ->
            {[EmptyDb EXCEPT !.alfs = [k \in 1..Len(b) |-> AlfRow(b[k])]] :
                b \in DischargeStays("Hospital/ER")}
      [] wiring.func = "nf_census_on_date" ->
            {[EmptyDb EXCEPT !.inpatient = [k \in 1..Len(b) |-> InpatientRow(b[k])],
                             !.nursing_home = [k \in 1..Len(u) |-> NursingHomeRow(u[k])]] :
                b \in CensusStays(Keys, <<Before, Mid1>>, "Acute Hospital"),
                u \in BagsOf(Product(<<1>>, Keys, <<Before>>, <<Null>>, <<"Other">>))}
      [] wiring.func = "nf_to_hosp" ->
            {[EmptyDb EXCEPT !.nursing_home = [k \in 1..Len(b) |-> NursingHomeRow(b[k])]] :
                b \in DischargeStays("Acute care hospital or psychiatric facility")}
      [] wiring.func = "hosp_admissions" ->
            {[EmptyDb EXCEPT !.inpatient = [k \in 1..Len(b) |-> InpatientRow(b[k])]] :
                b \in AdmissionStays}
      [] wiring.func \in {"resulting_30_day_hosp_count", "readmit_30_day_hosp_count"} ->
            {[EmptyDb EXCEPT !.inpatient = [k \in 1..Len(b) |-> InpatientRow(b[k])]] :
                b \in BagsOf(Product(Members, Keys, <<Mid1>>, <<Null>>,
                                     <<"Acute Hospital", "Other">>))}
      [] wiring.func = "adc_census_on_date" ->
            {[EmptyDb EXCEPT !.authorizations = [k \in 1..Len(b) |-> AuthorizationRow(b[k])]] :
                b \in BagsOf(Product(Members, Keys, <<Before, Mid1>>,
                                     <<Null, Mid1>>,
                                     <<"Adult Day Center Attendance", "Other">>))}
      [] wiring.func = "pressure_ulcers_at_facility" ->
            {[EmptyDb EXCEPT !.wounds = [k \in 1..Len(b) |-> WoundRow(b[k])]] :
                b \in BagsOf(Product(Members, <<Txt("A"), Txt("B"), Null>>,
                                     <<Mid1, Mid2>>, <<Null>>, <<"SNF", "ALF">>))}
      [] wiring.func = "infections_by_hosp" ->
            {[EmptyDb EXCEPT !.infections = [k \in 1..Len(i) |-> InfectionRow(i[k])],
                             !.inpatient = [k \in 1..Len(b) |-> InpatientRow(b[k])]] :
                i \in BagsOf(Product(Members, <<"Hospital", "Community">>,
                                     <<MkDate(2024, 1, 20), MkDate(2024, 1, 30)>>,
                                     <<Null>>, <<"">>)),
                b \in BagsOf(Product(Members, Keys, <<MkDate(2024, 1, 2)>>,
                                     <<Null, MkDate(2024, 1, 10), MkDate(2024, 1, 17),
                                       MkDate(2024, 1, 22)>>,
                                     <<"Acute Hospital">>))}

\* one row in every table
SampleDb ==
    [alfs |-> <<AlfRow(<<1, Txt("A"), Before, Mid1, "Hospital/ER">>)>>,
     nursing_home |-> <<NursingHomeRow(<<1, Txt("A"), Before, Mid1,
                            "Acute care hospital or psychiatric facility">>)>>,
     inpatient |-> <<InpatientRow(<<1, Txt("B"), Before, Mid1, "Acute Hospital">>)>>,
     authorizations |-> <<AuthorizationRow(<<1, Txt("A"), Before, Null,
                            "Adult Day Center Attendance">>)>>,
     infections |-> <<InfectionRow(<<1, "Hospital", MkDate(2024, 1, 20)>>)>>,
     wounds |-> <<WoundRow(<<1, Txt("A"), Mid1, Null, "SNF">>)>>]

\* SampleDb with a participant whose assisted living facility is missing
NullKeyDb ==
    [SampleDb EXCEPT !.alfs =
        << AlfRow(<<1, Txt("B"), Before, Null, "Other">>),
           AlfRow(<<2, Null, Before, Null, "Other">>),
           AlfRow(<<2, Txt("A"), Before, Null, "Other">>) >>]

NoLocals == [params |-> <<>>, placeholder |-> FALSE, df |-> <<>>,
             hosp_within_one_weeks |-> <<>>]

NoFile == [written |-> FALSE, rows |-> <<>>]

MainIdle == [pc |-> "idle", k |-> 0, written |-> <<>>, archived |-> FALSE]

InitBuild(calls, ranges) ==
    /\ call \in {WithDates(w, r[1], r[2]) : w \in calls, r \in ranges}
    /\ date = Stop
    /\ df = EmptyFrame
    /\ pc = "start"
    /\ history = <<>>
    /\ inf_locals = NoLocals
    /\ inf_file = NoFile
    /\ main = MainIdle

\* any call of the main block, over any pair of dates, on a small datastore
Init ==
    /\ InitBuild(Range(MainCalls), InputDates \X InputDates)
    /\ db \in {EmptyDb, SampleDb, NullKeyDb}

Spec == Init /\ [][Next]_vars

\* the calls whose selection is in the source, over January and February
\* 2024, on every datastore of the bound
QueryCalls == {w \in Range(MainCalls) : w.func # "infections_by_hosp"}

InitQuery ==
    /\ InitBuild(QueryCalls, {<<Jan1, Feb29>>})
    /\ db \in DbsFor(call.wiring)

SpecQuery == InitQuery /\ [][Next]_vars

\* the infection metric
InitInf ==
    /\ InitBuild({MainCalls[8]}, {<<Jan1, Feb29>>})
    /\ db \in DbsFor(call.wiring)

SpecInf == InitInf /\ [][NextSpread]_vars

\* the assisted living census
InitAlf ==
    /\ InitBuild({MainCalls[1]}, {<<Jan1, Feb29>>})
    /\ db \in DbsFor(call.wiring)

SpecAlf == InitAlf /\ [][NextSpread]_vars

\* the nursing facility census as the main block calls it
InitNf ==
    /\ InitBuild({MainCalls[3]}, {<<Jan1, Feb29>>})
    /\ db \in DbsFor(call.wiring)

SpecNf == InitNf /\ [][NextSpread]_vars

(***************************************************************************)
(* The main block: the eleven calls in order, each result written to its   *)
(* file when the call has returned, then archive_files().                  *)
(***************************************************************************)
\* CsvReady for a file opened before the frame is built
CsvReadyEarly == pc \in {"loop", "done"}

\* build_*(...).to_csv(file): the file is written once the frame is returned
CsvReady == pc = "done"

\* archive_files() is the last statement of the block
ArchiveReady == main.k > Len(MainCalls)

\* lines 402-438: the returned frame is written and the next call begins
MainWrite ==
    /\ main.pc = "running"
    /\ main.k <= Len(MainCalls)
    /\ CsvReady
    /\ main' = [main EXCEPT
                 !.written = Append(@, [file |-> call.wiring.file, frame |-> df]),
                 !.k = @ + 1]
    /\ IF main.k < Len(MainCalls)
       THEN /\ call' = [call EXCEPT !.wiring = MainCalls[main.k + 1]]
            /\ pc' = "start"
       ELSE /\ call' = call
            /\ pc' = "idle"
    /\ df' = EmptyFrame
    /\ date' = Stop
    /\ history' = <<>>
    /\ UNCHANGED <<db, inf_locals, inf_file>>

\* a query of the running call fails (the universe query, or the query of
\* the month the loop is at): nothing catches it, the run ends
QueryFails ==
    /\ main.pc = "running"
    /\ pc = "start" \/ (pc = "loop" /\ date # Stop)
    /\ pc' = "raised"
    /\ main' = [main EXCEPT !.pc = "aborted"]
    /\ UNCHANGED <<db, call, date, df, history, inf_locals, inf_file>>

\* line 440
MainArchive ==
    /\ main.pc = "running"
    /\ ArchiveReady
    /\ main' = [main EXCEPT !.archived = TRUE, !.pc = "finished"]
    /\ UNCHANGED <<db, call, date, df, pc, history, inf_locals, inf_file>>

NextMain == Next \/ MainWrite \/ QueryFails \/ MainArchive

InitMain ==
    /\ call \in {WithDates(MainCalls[1], r[1], r[2]) :
                    r \in {<<Jan1, Feb29>>, <<Jan1, Mid2>>, <<Mid1, Mid1>>}}
    /\ db \in {EmptyDb, SampleDb, NullKeyDb}
    /\ date = Stop
    /\ df = EmptyFrame
    /\ pc = "start"
    /\ history = <<>>
    /\ inf_locals = NoLocals
    /\ inf_file = NoFile
    /\ main = [pc |-> "running", k |-> 1, written |-> <<>>, archived |-> FALSE]

SpecMain == InitMain /\ [][NextMain]_vars

(***************************************************************************)
(* Properties                                                              *)
(***************************************************************************)
Built == pc = "done"

\* calendar months from the month of a to the month of b
months_between(a, b) == (b.year - a.year) * 12 + (b.month - a.month)

\* C1: for start <= end the month loop has produced months_between(start,
\* end) + 1 parameter pairs when it ends, one per calendar month touched by
\* the range, each month_start the first day of the month of its month_end
C1_OnePairPerMonthTouched ==
    (Built /\ DateLE(call.start_date, call.end_date)) =>
        /\ Len(history) = months_between(call.start_date, call.end_date) + 1
        /\ \A i \in 1..Len(history) :
              /\ history[i].params[1].day = 1
              /\ history[i].params[1].month = history[i].params[2].month
              /\ history[i].params[1].year = history[i].params[2].year

YearMonth(d) == Pad4(d.year) \o "-" \o Pad2(d.month)

\* the count column the output table documents for a metric
ColumnTemplate(wiring, month_start) ==
    CASE wiring.func \in {"alf_census_on_date", "nf_census_on_date"} ->
            "census-" \o YearMonth(month_start)
      [] wiring.func \in {"alf_to_hosp", "nf_to_hosp"} ->
            "hosp_admits-" \o DateStr(month_start)
      [] wiring.func = "hosp_admissions" -> "admissions-" \o YearMonth(month_start)
      [] wiring.func = "resulting_30_day_hosp_count" ->
            "results_in_30dr-" \o YearMonth(month_start)
      [] wiring.func = "readmit_30_day_hosp_count" -> "30dr-" \o YearMonth(month_start)
      [] wiring.func = "adc_census_on_date" -> "adc_census-" \o YearMonth(month_start)
      [] wiring.func = "pressure_ulcers_at_facility" ->
            wiring.facility_type \o "_pulcers-" \o DateStr(month_start)
      [] OTHER -> "infections"

\* C5: the count column a metric function returns for a month is named by
\* the metric's template instantiated with the month start, so the names
\* of different months of one metric differ
C5_ColumnNamesFollowTemplate ==
    call.wiring.func # "infections_by_hosp" =>
        /\ \A i \in 1..Len(history) :
              history[i].frame.columns[2]
                  = ColumnTemplate(call.wiring, history[i].params[1])
        /\ \A i, j \in 1..Len(history) :
              i # j => history[i].frame.columns[2] # history[j].frame.columns[2]

\* the facilities of the reference table that pass its predicate
UniverseKeys ==
    {r[call.wiring.facility_col] :
        r \in {x \in Range(db[call.wiring.table]) : where_filter(call.wiring.table, x)}}

\* the cell a month's result holds for a key: its count, or 0 without a row
ResultCell(frame, key) ==
    IF \E i \in 1..Len(frame.rows) : frame.rows[i][1] = key
    THEN frame.rows[CHOOSE i \in 1..Len(frame.rows) : frame.rows[i][1] = key][2]
    ELSE Num(0)

\* the key cell of a universe row: a missing facility reads 0 once a month
\* has been folded, the zero-fill covers the key column too
Filled(key) == IF key = Null /\ Len(history) > 0 THEN Num(0) ELSE key

Folding == pc \in {"loop", "done"} /\ call.wiring.fn = "build_csv_date_spread"

\* C2: after any number of monthly results have been folded onto the
\* facility universe, the spread table has exactly one row per facility of
\* the universe, and the cell of (facility, month) is the count that
\* month's result holds for the facility, 0 when it holds none
C2_OneRowPerFacilityEveryCellDefined ==
    Folding =>
        /\ {df.rows[i][1] : i \in 1..Len(df.rows)} = {Filled(k) : k \in UniverseKeys}
        /\ Len(df.rows) = Cardinality(UniverseKeys)
        /\ \A i \in 1..Len(df.rows) :
              /\ Len(df.rows[i]) = 1 + Len(history)
              /\ \A m \in 1..Len(history) :
                    /\ df.rows[i][1 + m] # Null
                    /\ df.rows[i][1 + m] = ResultCell(history[m].frame, df.rows[i][1])

\* the scenario of the spec: two facilities, each counted in one month only
C2_Witness ==
    /\ Built
    /\ call.wiring.fn = "build_csv_date_spread"
    /\ Len(history) = 2
    /\ Len(df.rows) = 2
    /\ df.rows[1][1] = Txt("A") /\ df.rows[1][2] # Num(0) /\ df.rows[1][3] = Num(0)
    /\ df.rows[2][1] = Txt("B") /\ df.rows[2][2] = Num(0) /\ df.rows[2][3] # Num(0)

RECURSIVE SumCells(_)
SumCells(cells) == IF cells = <<>> THEN 0 ELSE Head(cells).n + SumCells(Tail(cells))

ColumnSum(frame, c) == SumCells([i \in 1..Len(frame.rows) |-> frame.rows[i][c]])

\* C6: every facility of a monthly result is in the facility universe of
\* the call, so the month's column of the spread sums to the month's result
C6_NoAggregatedFacilityDropped ==
    Folding =>
        \A m \in 1..Len(history) :
            /\ \A i \in 1..Len(history[m].frame.rows) :
                  history[m].frame.rows[i][1] \in UniverseKeys
            /\ ColumnSum(df, 1 + m) = ColumnSum(history[m].frame, 2)

CensusCall == call.wiring.func \in {"alf_census_on_date", "nf_census_on_date"}

\* the table a census function reads, and its facility column
CensusTable == IF call.wiring.func = "alf_census_on_date" THEN db.alfs ELSE db.inpatient

CensusFacility(r) ==
    IF call.wiring.func = "alf_census_on_date" THEN r.facility_name ELSE r.facility

FrameCount(frame, f) == ResultCell(frame, Txt(f)).n

MonthBounds(params) ==
    /\ params[1].day = 1
    /\ params[2] = MonthEnd(params[1])

\* C7 as stated: a record is counted for the month iff (discharge_date >=
\* period_end or discharge_date is NULL) and admission_date <= period_start
C7_CountedIfPresentWholeMonth ==
    CensusCall =>
        \A m \in 1..Len(history) :
            LET period_start == history[m].params[1]
                period_end == history[m].params[2]
            IN  /\ MonthBounds(history[m].params)
                /\ \A f \in Range(Facilities) :
                      FrameCount(history[m].frame, f) =
                        Cardinality({k \in 1..Len(CensusTable) :
                            /\ CensusFacility(CensusTable[k]) = Txt(f)
                            /\ \/ CensusTable[k].discharge_date = Null
                               \/ DateLE(period_end, CensusTable[k].discharge_date)
                            /\ DateLE(CensusTable[k].admission_date, period_start)})

\* C7 amended: a record is counted for the month iff (discharge_date >=
\* period_start or discharge_date is NULL) and admission_date <= period_end,
\* period_start the first and period_end the last day of the month
C7_CountedIfPresentDuringMonth ==
    CensusCall =>
        \A m \in 1..Len(history) :
            LET period_start == history[m].params[1]
                period_end == history[m].params[2]
            IN  /\ MonthBounds(history[m].params)
                /\ \A f \in Range(Facilities) :
                      FrameCount(history[m].frame, f) =
                        Cardinality({k \in 1..Len(CensusTable) :
                            /\ CensusFacility(CensusTable[k]) = Txt(f)
                            /\ \/ CensusTable[k].discharge_date = Null
                               \/ DateLE(period_start, CensusTable[k].discharge_date)
                            /\ DateLE(CensusTable[k].admission_date, period_end)})

\* a census month that counts a record admitted after the month began and
\* discharged before it ended
C7_Witness ==
    /\ CensusCall
    /\ \E m \in 1..Len(history) : \E k \in 1..Len(history[m].selected) :
          LET r == history[m].selected[k]
          IN  /\ CensusFacility(r) # Null
              /\ r.discharge_date # Null
              /\ ~DateLE(r.admission_date, history[m].params[1])
              /\ ~DateLE(history[m].params[2], r.discharge_date)
              /\ FrameCount(history[m].frame, CensusFacility(r).s) > 0

\* the rows a month selected for a facility
SelectedFor(m, f) ==
    {k \in 1..Len(history[m].selected) :
        history[m].selected[k][call.wiring.facility_col] = Txt(f)}

\* C8: the count of a facility is the number of distinct subjects among
\* the rows selected for it, a subject with several selected rows at the
\* facility counted once
C8_CountsDistinctSubjects ==
    \A m \in 1..Len(history) : \A f \in Range(Facilities) :
        FrameCount(history[m].frame, f) =
            Cardinality({history[m].selected[k].member_id : k \in SelectedFor(m, f)})

InfCalled == inf_locals.params # <<>>

Matched == InfCalled /\ ~inf_locals.placeholder

InPeriod(d, params) == DateLE(params[1], d) /\ DateLE(d, params[2])

\* a hospital-acquired infection of the period with an admission of its subject
Candidates(params) ==
    {c \in Range(db.infections) \X Range(db.inpatient) :
        /\ c[1].where_infection_was_acquired = "Hospital"
        /\ InPeriod(c[1].date_time_occurred, params)
        /\ c[2].member_id = c[1].member_id}

DayDiff(occurred, discharge) == Abs(ToOrdinal(occurred) - ToOrdinal(discharge))

InWindow(c) ==
    /\ c[2].discharge_date # Null
    /\ DayDiff(c[1].date_time_occurred, c[2].discharge_date) <= 7

LastCall == history[Len(history)]

\* C3: a candidate admission is retained only if its discharge is within 7
\* days of the infection; at most one is retained per (subject, infection
\* date), one with the least difference among the candidates in the window;
\* the infection is counted at the facility of the retained admission
C3_NearestDischargeWithinWeek ==
    (Matched /\ pc # "raised") =>
        LET kept == inf_locals.hosp_within_one_weeks
            params == inf_locals.params
        IN  /\ \A k \in 1..Len(kept) :
                  \E c \in Candidates(params) :
                      /\ InWindow(c)
                      /\ c[1].member_id = kept[k].member_id
                      /\ c[1].date_time_occurred = kept[k].date_time_occurred
                      /\ c[2].discharge_date = kept[k].discharge_date
                      /\ c[2].facility = kept[k].facility
            /\ \A j, k \in 1..Len(kept) :
                  (/\ kept[j].member_id = kept[k].member_id
                   /\ kept[j].date_time_occurred = kept[k].date_time_occurred) => j = k
            /\ \A c \in Candidates(params) :
                  InWindow(c) =>
                      \E k \in 1..Len(kept) :
                          /\ kept[k].member_id = c[1].member_id
                          /\ kept[k].date_time_occurred = c[1].date_time_occurred
                          /\ DayDiff(kept[k].date_time_occurred, kept[k].discharge_date)
                                <= DayDiff(c[1].date_time_occurred, c[2].discharge_date)
            /\ LastCall.params = params
            /\ \A f \in Range(Facilities) :
                  FrameCount(LastCall.frame, f) =
                      Cardinality({k \in 1..Len(kept) : kept[k].facility = Txt(f)})

\* an infection on day D with discharges at D-3 and D-10: only D-3 is retained
C3_Witness ==
    /\ Matched
    /\ \E c, e \in Candidates(inf_locals.params) :
          /\ c[1] = e[1]
          /\ c[2].discharge_date # Null /\ e[2].discharge_date # Null
          /\ ToOrdinal(c[1].date_time_occurred) - ToOrdinal(c[2].discharge_date) = 3
          /\ ToOrdinal(e[1].date_time_occurred) - ToOrdinal(e[2].discharge_date) = 10
          /\ Len(inf_locals.hosp_within_one_weeks) = 1
          /\ inf_locals.hosp_within_one_weeks[1].discharge_date = c[2].discharge_date
          /\ FrameCount(LastCall.frame, c[2].facility.s) = 1

NoValidDifference(params) ==
    \A c \in Candidates(params) : c[2].discharge_date = Null

\* C4: when the join of a month yields no valid date difference (no
\* admission of the subjects, or no infection at all), the call does not
\* raise; it returns the single row {facility: "None", infections: "None"}
\* and the run goes on with the next month
C4_PlaceholderWhenNoDifference ==
    (InfCalled /\ NoValidDifference(inf_locals.params)) =>
        /\ pc \in {"loop", "done"}
        /\ Len(history) > 0
        /\ LastCall.params = inf_locals.params
        /\ LastCall.frame.columns = <<"facility", "infections">>
        /\ LastCall.frame.rows = << <<Txt("None"), Txt("None")>> >>

\* C9: after a call that returned counts, the diagnostic file holds exactly
\* the hospital-acquired infections of the month for which no admission of
\* the subject has a discharge within 7 days of the infection
C9_FileHoldsInfectionsWithoutVisit ==
    (Matched /\ pc # "raised") =>
        /\ inf_file.written
        /\ Range(inf_file.rows) =
              {i \in Range(db.infections) :
                  /\ i.where_infection_was_acquired = "Hospital"
                  /\ InPeriod(i.date_time_occurred, inf_locals.params)
                  /\ ~\E a \in Range(db.inpatient) :
                        a.member_id = i.member_id /\ InWindow(<<i, a>>)}

WrittenFiles == [i \in 1..Len(main.written) |-> main.written[i].file]

FilesOfFirst(n) == [i \in 1..n |-> MainCalls[i].file]

\* the month ends within the dates of the run
MonthEndsOfRun ==
    {i \in 0..(NumMonths - 1) :
        LET e == MonthEnd(MkDate(InputMonth(i).year, InputMonth(i).month, 1))
        IN  DateLE(call.start_date, e) /\ DateLE(e, call.end_date)}

\* C10: when a query fails while metric k is built the run ends with the
\* CSVs of metrics 1..k-1 written in full, none of metric k or later, and
\* no archive; the archive is made only after all eleven CSVs are written
C10_FailureLeavesEarlierFilesOnly ==
    /\ main.pc = "aborted" =>
          /\ pc = "raised"
          /\ WrittenFiles = FilesOfFirst(main.k - 1)
          /\ \A i \in 1..Len(main.written) :
                Len(main.written[i].frame.columns) = 1 + Cardinality(MonthEndsOfRun)
          /\ ~main.archived
    /\ main.archived => WrittenFiles = FilesOfFirst(Len(MainCalls))

\* the query of the second month of the eighth metric fails
C10_Witness ==
    /\ main.pc = "aborted"
    /\ main.k = 8
    /\ Len(history) = 1
    /\ Len(main.written) = 7

====
